---- MODULE Spec2Model ----
(***************************************************************************)
(* The query-result cache of search_client: RedisStorageBackend            *)
(* (storage/redis.py) over a Redis keyspace, and the lookup-or-fetch       *)
(* gateway run_search (search.py); the key codec _slugify as a function of *)
(* its input text; and the lazily created process-wide backend of          *)
(* storage/__init__.py, with threads calling _get_redis_backend.           *)
(* SpecRace runs save_results, delete_results and cleanup of concurrent     *)
(* callers one backend call at a time.                                     *)
(*                                                                         *)
(* Time is a discrete clock of ticks.  TicksPerSecond ticks make one       *)
(* second (the resolution of the identifier's timestamp) and               *)
(* SecondsPerDay seconds make one day (86400 in the program, scaled down). *)
(* A text is a sequence of one-character strings.                          *)
(***************************************************************************)
EXTENDS Integers, Sequences, FiniteSets, TLC

MaxClock == 3
TicksPerSecond == 2
SecondsPerDay == 1
SlugMaxLen == 50
MaxTextLen == 3
NumThreads == 2
MaxCalls == 2
MaxItems == 2

VARIABLES
    clock,        \* time.time(), in ticks
    ttl_days,     \* RedisStorageBackend.ttl_days
    data,         \* Redis string keys: key -> serialized record
    expiry,       \* Redis key expiry: key -> tick at which the key is gone
    sorted_sets,  \* Redis sorted sets: key -> sequence of [m |-> member, s |-> score]
    last,         \* the last completed call: its arguments and what it returned
    saves_only,   \* the number of saves made, while saves and reads are all that
                  \* has happened to the keyspace (else -1)
    redis_backend,  \* the module global _redis_backend: 0 (None) or an instance
    pc,           \* thread -> where it is inside _get_redis_backend
    made,         \* thread -> the instance its constructor call returned
    returned,     \* thread -> the instances its calls returned, in order
    constructed,  \* how many times RedisStorageBackend(...) has run
    is_mock,      \* RedisStorageBackend.is_mock: the client is the MockRedisClient
    procs         \* caller -> the call it is inside, step by step

store_vars == <<clock, ttl_days, data, expiry, sorted_sets, last, saves_only, is_mock, procs>>
singleton == <<redis_backend, pc, made, returned, constructed>>
vars == <<clock, ttl_days, data, expiry, sorted_sets, last, saves_only,
          redis_backend, pc, made, returned, constructed, is_mock, procs>>

Threads == 1..NumThreads

Min(a, b) == IF a < b THEN a ELSE b

(***************************************************************************)
(* Inputs                                                                  *)
(***************************************************************************)
Queries == { <<>>, <<"A", " ">> }
\* queries that differ and have one slug
SameSlugQueries == { <<"A", " ">>, <<"a", " ">>, <<"a", "-">> }

\* A Python value is a sequence of tokens [k |-> kind, v |-> text]; a payload
\* (Dict[str, Any]) is a sequence of <<key, value>> items in insertion order.
PyStr(s) == << [k |-> "str", v |-> s] >>
PyBool(b) == << [k |-> "bool", v |-> IF b THEN "True" ELSE "False"] >>
PyList(v) == << [k |-> "list(", v |-> ""] >> \o v \o << [k |-> ")list", v |-> ""] >>

WithResults == << <<"results", PyList(PyStr("page"))>> >>
NoResults == << <<"answer", PyStr("text")>> >>
Payloads == { WithResults, NoResults }

TtlDays == { 0, 1 }

\* Input texts of _slugify: every text of up to MaxTextLen characters, and
\* two texts one character longer than a slug can be.
Chars == { "A", "b", " ", "!", "-" }
LongTexts ==
    { [i \in 1..(SlugMaxLen + 1) |-> "b"],
      [i \in 1..(SlugMaxLen + 1) |-> IF i = SlugMaxLen THEN " " ELSE "b"] }
Texts == UNION { [1..n -> Chars] : n \in 0..MaxTextLen } \cup LongTexts
prefix == "web-search:"

(***************************************************************************)
(* KeyCodec                                                                *)
(***************************************************************************)
Lower(c) == IF c = "A" THEN "a" ELSE IF c = "B" THEN "b" ELSE IF c = "C" THEN "c" ELSE c

slugify(text) ==
    LET lowered == [i \in 1..Len(text) |-> Lower(text[i])]
        replaced == [i \in 1..Len(text) |-> IF lowered[i] = " " THEN "-" ELSE lowered[i]]
    IN  SubSeq(replaced, 1, Min(Len(replaced), SlugMaxLen))

\* The slugify of tests/search_client/storage.py: lowercase, every run of
\* characters outside a-z0-9 becomes one hyphen, hyphens at both ends are
\* stripped, then the text is cut to 50 characters.
Alnum == { "a", "b", "c" }

RECURSIVE Collapse(_)
Collapse(t) ==
    IF Len(t) <= 1 THEN t
    ELSE IF t[1] = "-" /\ t[2] = "-" THEN Collapse(Tail(t))
    ELSE <<t[1]>> \o Collapse(Tail(t))

RECURSIVE Strip(_)
Strip(t) ==
    IF t = <<>> THEN t
    ELSE IF t[1] = "-" THEN Strip(Tail(t))
    ELSE IF t[Len(t)] = "-" THEN Strip(SubSeq(t, 1, Len(t) - 1))
    ELSE t

reference_slugify(text) ==
    LET lowered == [i \in 1..Len(text) |-> Lower(text[i])]
        hyphened == [i \in 1..Len(text) |-> IF lowered[i] \in Alnum THEN lowered[i] ELSE "-"]
        stripped == Strip(Collapse(hyphened))
    IN  SubSeq(stripped, 1, Min(Len(stripped), SlugMaxLen))

make_key(key_type, identifier) == [prefix |-> prefix, type |-> key_type, id |-> identifier]

Slugs == { slugify(q) : q \in Queries }
NoId == [ts |-> 0 - 1, slug |-> <<>>]

(***************************************************************************)
(* json.dumps / json.loads                                                 *)
(***************************************************************************)
DumpsToken(t) ==
    CASE t.k = "str" -> [k |-> "string", v |-> t.v]
      [] t.k = "bool" -> [k |-> "literal", v |-> IF t.v = "True" THEN "true" ELSE "false"]
      [] t.k = "list(" -> [k |-> "[", v |-> ""]
      [] t.k = ")list" -> [k |-> "]", v |-> ""]

LoadsToken(t) ==
    CASE t.k = "string" -> [k |-> "str", v |-> t.v]
      [] t.k = "literal" -> [k |-> "bool", v |-> IF t.v = "true" THEN "True" ELSE "False"]
      [] t.k = "[" -> [k |-> "list(", v |-> ""]
      [] t.k = "]" -> [k |-> ")list", v |-> ""]

DumpsValue(v) == [i \in 1..Len(v) |-> DumpsToken(v[i])]
LoadsValue(j) == [i \in 1..Len(j) |-> LoadsToken(j[i])]

\* A dict is written as a JSON object: each key a JSON string, each value dumped.
DumpsDict(p) == [i \in 1..Len(p) |-> << [k |-> "string", v |-> p[i][1]], DumpsValue(p[i][2]) >>]
LoadsDict(j) == [i \in 1..Len(j) |-> << j[i][1].v, LoadsValue(j[i][2]) >>]

json_dumps(rec) ==
    [query |-> [k |-> "string", v |-> rec.query],
     timestamp |-> [k |-> "string", v |-> rec.timestamp],
     results |-> DumpsDict(rec.results)]

json_loads(text) ==
    [query |-> text.query.v,
     timestamp |-> text.timestamp.v,
     results |-> LoadsDict(text.results)]

\* key in dict; dict[key] = value
HasKey(p, key) == \E i \in 1..Len(p) : p[i][1] = key
SetKey(p, key, value) ==
    IF HasKey(p, key)
    THEN [i \in 1..Len(p) |-> IF p[i][1] = key THEN <<key, value>> ELSE p[i]]
    ELSE Append(p, <<key, value>>)
GetKey(p, key) == p[CHOOSE i \in 1..Len(p) : p[i][1] = key][2]

(***************************************************************************)
(* The Redis keyspace                                                      *)
(***************************************************************************)
Store == [data |-> data, expiry |-> expiry, sorted_sets |-> sorted_sets]

\* Redis removes a key once its expiry time is reached.
Expire(st, now) ==
    LET gone == { key \in DOMAIN st.expiry : st.expiry[key] <= now }
    IN  [st EXCEPT !.data = [key \in (DOMAIN st.data) \ gone |-> st.data[key]],
                   !.expiry = [key \in (DOMAIN st.expiry) \ gone |-> st.expiry[key]]]

\* SET key value: writes the value and discards any expiry the key had (the
\* in-memory stand-in keeps it; save_results sets the expiry anew right after).
redis_set(st, key, value) ==
    [st EXCEPT !.data = (key :> value) @@ st.data,
               !.expiry = [x \in (DOMAIN st.expiry) \ {key} |-> st.expiry[x]]]

\* EXPIRE key seconds
redis_expire(st, key, seconds, now) ==
    IF key \in DOMAIN st.data
    THEN [st EXCEPT !.expiry = (key :> (now + seconds * TicksPerSecond)) @@ st.expiry]
    ELSE st

\* DEL key
redis_delete(st, key) ==
    [st EXCEPT !.data = [x \in (DOMAIN st.data) \ {key} |-> st.data[x]],
               !.expiry = [x \in (DOMAIN st.expiry) \ {key} |-> st.expiry[x]]]

ZSet(st, key) == IF key \in DOMAIN st.sorted_sets THEN st.sorted_sets[key] ELSE <<>>
Members(z) == { z[i].m : i \in 1..Len(z) }

\* (variant) a member already in the set is added once more
zadd_appends(st, key, member, score) ==
    LET z == ZSet(st, key)
    IN  [st EXCEPT !.sorted_sets = (key :> Append(z, [m |-> member, s |-> score])) @@ st.sorted_sets]

\* ZADD key {member: score}
zadd(st, key, member, score) ==
    LET z == ZSet(st, key)
        z2 == IF member \in Members(z)
              THEN [i \in 1..Len(z) |-> IF z[i].m = member THEN [m |-> member, s |-> score] ELSE z[i]]
              ELSE Append(z, [m |-> member, s |-> score])
    IN  [st EXCEPT !.sorted_sets = (key :> z2) @@ st.sorted_sets]

\* ZREM key member (an emptied sorted set no longer exists)
zrem(st, key, member) ==
    LET z2 == SelectSeq(ZSet(st, key), LAMBDA e : e.m # member)
    IN  [st EXCEPT !.sorted_sets =
            IF z2 = <<>>
            THEN [x \in (DOMAIN st.sorted_sets) \ {key} |-> st.sorted_sets[x]]
            ELSE (key :> z2) @@ st.sorted_sets]

RECURSIVE SortByScore(_)
SortByScore(z) ==
    IF Len(z) <= 1 THEN z
    ELSE LET h == Head(z)
             rest == SortByScore(Tail(z))
         IN  SelectSeq(rest, LAMBDA e : e.s < h.s) \o <<h>> \o SelectSeq(rest, LAMBDA e : e.s >= h.s)

\* ZRANGEBYSCORE key min max: the members in ascending score order
zrangebyscore(st, key, min_score, max_score) ==
    LET hit == SelectSeq(SortByScore(ZSet(st, key)),
                         LAMBDA e : min_score <= e.s /\ e.s <= max_score)
    IN  [i \in 1..Len(hit) |-> hit[i].m]

\* MockRedisClient.zrangebyscore: the members whose score is in the range, in
\* the order the dict of the sorted set holds them, which is the order of
\* their first insertion.
mock_zrangebyscore(st, key, min_score, max_score) ==
    LET hit == SelectSeq(ZSet(st, key), LAMBDA e : min_score <= e.s /\ e.s <= max_score)
    IN  [i \in 1..Len(hit) |-> hit[i].m]

Infinity == MaxClock + 1

AllIndex == <<"a", "l", "l">>
NoRecord == [query |-> <<>>, timestamp |-> 0 - 1, results |-> <<>>]
Seconds(days) == days * SecondsPerDay
ResultIds(st) == { key.id : key \in DOMAIN st.data }

(***************************************************************************)
(* RedisStorageBackend.  Each operation is a function of the keyspace it   *)
(* starts from; fault names the backend call that raises (0: none).        *)
(***************************************************************************)
\* (variant) the record keeps the slug in place of the query
save_results_keeps_slug(st, now, query, results, fault) ==
    LET identifier == [ts |-> now \div TicksPerSecond, slug |-> slugify(query)]
        results_with_metadata == [query |-> slugify(query), timestamp |-> now, results |-> results]
        result_key == make_key("result", identifier)
        s1 == redis_set(st, result_key, json_dumps(results_with_metadata))
        s2 == IF ttl_days > 0 THEN redis_expire(s1, result_key, Seconds(ttl_days), now) ELSE s1
        s3 == zadd(s2, make_key("index", AllIndex), identifier, now)
        s4 == zadd(s3, make_key("query", slugify(query)), identifier, now)
    IN  [st |-> s4, err |-> "none", id |-> identifier]

\* (variant) the per-query index is keyed by the query as given, not its slug
save_results_indexes_raw_query(st, now, query, results, fault) ==
    LET identifier == [ts |-> now \div TicksPerSecond, slug |-> slugify(query)]
        results_with_metadata == [query |-> query, timestamp |-> now, results |-> results]
        result_key == make_key("result", identifier)
        s1 == redis_set(st, result_key, json_dumps(results_with_metadata))
        s2 == IF ttl_days > 0 THEN redis_expire(s1, result_key, Seconds(ttl_days), now) ELSE s1
        s3 == zadd(s2, make_key("index", AllIndex), identifier, now)
        s4 == zadd(s3, make_key("query", query), identifier, now)
    IN  [st |-> s4, err |-> "none", id |-> identifier]

\* (variant) the record is written without an expiry
save_results_without_expiry(st, now, query, results, fault) ==
    LET identifier == [ts |-> now \div TicksPerSecond, slug |-> slugify(query)]
        results_with_metadata == [query |-> query, timestamp |-> now, results |-> results]
        result_key == make_key("result", identifier)
        s1 == redis_set(st, result_key, json_dumps(results_with_metadata))
        s3 == zadd(s1, make_key("index", AllIndex), identifier, now)
        s4 == zadd(s3, make_key("query", slugify(query)), identifier, now)
    IN  [st |-> s4, err |-> "none", id |-> identifier]

\* (variant) a save that raises undoes the steps it completed
save_results_rolls_back(st, now, query, results, fault) ==
    LET identifier == [ts |-> now \div TicksPerSecond, slug |-> slugify(query)]
        results_with_metadata == [query |-> query, timestamp |-> now, results |-> results]
        result_key == make_key("result", identifier)
        f == IF fault = 2 /\ ttl_days = 0 THEN 0 ELSE fault
        s1 == redis_set(st, result_key, json_dumps(results_with_metadata))
        s2 == IF ttl_days > 0 THEN redis_expire(s1, result_key, Seconds(ttl_days), now) ELSE s1
        s3 == zadd(s2, make_key("index", AllIndex), identifier, now)
        s4 == zadd(s3, make_key("query", slugify(query)), identifier, now)
    IN  IF f # 0 THEN [st |-> st, err |-> "StorageError", id |-> NoId]
        ELSE [st |-> s4, err |-> "none", id |-> identifier]

\* save_results: 1 SET, 2 EXPIRE, 3 ZADD index:all, 4 ZADD query:<slug>
save_results(st, now, query, results, fault) ==
    LET identifier == [ts |-> now \div TicksPerSecond, slug |-> slugify(query)]
        results_with_metadata == [query |-> query, timestamp |-> now, results |-> results]
        result_key == make_key("result", identifier)
        f == IF fault = 2 /\ ttl_days = 0 THEN 0 ELSE fault
        Ran(step) == f = 0 \/ step < f
        s1 == IF Ran(1) THEN redis_set(st, result_key, json_dumps(results_with_metadata)) ELSE st
        s2 == IF Ran(2) /\ ttl_days > 0
              THEN redis_expire(s1, result_key, Seconds(ttl_days), now) ELSE s1
        s3 == IF Ran(3) THEN zadd(s2, make_key("index", AllIndex), identifier, now) ELSE s2
        s4 == IF Ran(4) THEN zadd(s3, make_key("query", slugify(query)), identifier, now) ELSE s3
        raised == f # 0
    IN  [st |-> s4,
         err |-> IF raised THEN "StorageError" ELSE "none",
         id |-> IF raised THEN NoId ELSE identifier]

\* (variant) a missing record is an error
get_results_raises_on_missing(st, identifier, fault) ==
    LET result_key == make_key("result", identifier)
        found == result_key \in DOMAIN st.data
    IN  [err |-> IF found THEN "none" ELSE "StorageError",
         found |-> found,
         rec |-> IF found THEN json_loads(st.data[result_key]) ELSE NoRecord]

\* get_results: 1 GET, 2 json.loads
get_results(st, identifier, fault) ==
    LET result_key == make_key("result", identifier)
        found == result_key \in DOMAIN st.data
        raised == fault = 1 \/ (fault = 2 /\ found)
    IN  [err |-> IF raised THEN "StorageError" ELSE "none",
         found |-> found /\ ~raised,
         rec |-> IF found /\ ~raised THEN json_loads(st.data[result_key]) ELSE NoRecord]

\* (variant) the index is read newest first
list_results_newest_first(st, limit, offset, query, fault) ==
    LET index_key == IF query # <<>> /\ query[1] # <<>>
                     THEN make_key("query", slugify(query[1]))
                     ELSE make_key("index", AllIndex)
        ascending == zrangebyscore(st, index_key, 0, Infinity)
        all_identifiers == [i \in 1..Len(ascending) |-> ascending[Len(ascending) + 1 - i]]
        identifiers == SubSeq(all_identifiers, offset + 1, Min(offset + limit, Len(all_identifiers)))
        present == SelectSeq(identifiers, LAMBDA id : get_results(st, id, 0).found)
    IN  [err |-> "none",
         listed |-> [i \in 1..Len(present) |->
                        [id |-> present[i], rec |-> get_results(st, present[i], 0).rec]]]

\* list_results: 1 ZRANGEBYSCORE, 2 the first GET, 3 the first json.loads.
\* query is <<>> (None) or <<q>>.
list_results(st, limit, offset, query, fault) ==
    LET index_key == IF query # <<>> /\ query[1] # <<>>
                     THEN make_key("query", slugify(query[1]))
                     ELSE make_key("index", AllIndex)
        all_identifiers == zrangebyscore(st, index_key, 0, Infinity)
        identifiers == SubSeq(all_identifiers, offset + 1, Min(offset + limit, Len(all_identifiers)))
        present == SelectSeq(identifiers, LAMBDA id : get_results(st, id, 0).found)
        raised == \/ fault = 1
                  \/ fault = 2 /\ identifiers # <<>>
                  \/ fault = 3 /\ present # <<>>
    IN  [err |-> IF raised THEN "StorageError" ELSE "none",
         listed |-> IF raised THEN <<>>
                    ELSE [i \in 1..Len(present) |->
                            [id |-> present[i], rec |-> get_results(st, present[i], 0).rec]]]

\* (variant) an identifier without record is taken out of the global index
delete_results_cleans_dangling(st, identifier, fault) ==
    LET result_data == get_results(st, identifier, 0)
        query == result_data.rec.query
        s2 == zrem(st, make_key("index", AllIndex), identifier)
        s3 == IF query # <<>>
              THEN zrem(s2, make_key("query", slugify(query)), identifier) ELSE s2
        s4 == redis_delete(s3, make_key("result", identifier))
    IN  IF ~result_data.found THEN [st |-> s2, err |-> "none", ok |-> FALSE]
        ELSE [st |-> s4, err |-> "none", ok |-> TRUE]

\* delete_results: 1 GET, 2 ZREM index:all, 3 ZREM query:<slug>, 4 DEL
delete_results(st, identifier, fault) ==
    LET result_data == get_results(st, identifier, IF fault = 1 THEN 1 ELSE 0)
        query == result_data.rec.query
        f == IF fault = 3 /\ query = <<>> THEN 0 ELSE fault
        Ran(step) == f = 0 \/ step < f
        s2 == IF Ran(2) THEN zrem(st, make_key("index", AllIndex), identifier) ELSE st
        s3 == IF Ran(3) /\ query # <<>>
              THEN zrem(s2, make_key("query", slugify(query)), identifier) ELSE s2
        s4 == IF Ran(4) THEN redis_delete(s3, make_key("result", identifier)) ELSE s3
        raised == f # 0
    IN  IF result_data.err # "none" THEN [st |-> st, err |-> "StorageError", ok |-> FALSE]
        ELSE IF ~result_data.found THEN [st |-> st, err |-> "none", ok |-> FALSE]
        ELSE [st |-> s4,
              err |-> IF raised THEN "StorageError" ELSE "none",
              ok |-> ~raised]

NoFault == [item |-> 0, step |-> 0]

\* The loop of cleanup over old_results[i..]: a delete that raises ends it.
RECURSIVE cleanup_loop(_, _, _, _, _)
cleanup_loop(st, old_results, i, count, fault) ==
    IF i > Len(old_results) THEN [st |-> st, err |-> "none", count |-> count]
    ELSE LET d == delete_results(st, old_results[i], IF fault.item = i THEN fault.step ELSE 0)
         IN  IF d.err # "none" THEN [st |-> d.st, err |-> d.err, count |-> count]
             ELSE cleanup_loop(d.st, old_results, i + 1, IF d.ok THEN count + 1 ELSE count, fault)

\* (variant) every old identifier is counted, deleted or not
cleanup_counts_identifiers(st, now, max_age_days, fault) ==
    LET cutoff == now - Seconds(max_age_days) * TicksPerSecond
        old_results == zrangebyscore(st, make_key("index", AllIndex), 0, cutoff)
        loop == cleanup_loop(st, old_results, 1, 0, fault)
    IN  [st |-> loop.st, count |-> Len(old_results), failed |-> FALSE, err |-> "none"]

\* (variant) the age is ignored: everything inserted up to now is old
cleanup_ignores_age(st, now, max_age_days, fault) ==
    LET old_results == zrangebyscore(st, make_key("index", AllIndex), 0, now)
        loop == cleanup_loop(st, old_results, 1, 0, fault)
    IN  [st |-> loop.st, count |-> loop.count, failed |-> FALSE, err |-> "none"]

\* (variant) a failure of the index query reaches the caller
cleanup_raises(st, now, max_age_days, fault) ==
    LET cutoff == now - Seconds(max_age_days) * TicksPerSecond
        old_results == zrangebyscore(st, make_key("index", AllIndex), 0, cutoff)
        loop == cleanup_loop(st, old_results, 1, 0, fault)
    IN  IF fault.item = 0 /\ fault.step = 1
        THEN [st |-> st, count |-> 0, failed |-> TRUE, err |-> "StorageError"]
        ELSE IF old_results = <<>>
        THEN [st |-> st, count |-> 0, failed |-> FALSE, err |-> "none"]
        ELSE IF loop.err # "none"
        THEN [st |-> loop.st, count |-> loop.count, failed |-> TRUE, err |-> "none"]
        ELSE [st |-> loop.st, count |-> loop.count, failed |-> FALSE, err |-> "none"]

\* cleanup: fault [item |-> 0, step |-> 1] is ZRANGEBYSCORE raising; item i > 0
\* is the delete of the i-th old identifier raising at that step.  Every
\* exception is caught by the handler of the whole body, which returns 0.
cleanup(st, now, max_age_days, fault) ==
    LET cutoff == now - Seconds(max_age_days) * TicksPerSecond
        old_results == zrangebyscore(st, make_key("index", AllIndex), 0, cutoff)
        loop == cleanup_loop(st, old_results, 1, 0, fault)
    IN  IF fault.item = 0 /\ fault.step = 1
        THEN [st |-> st, count |-> 0, failed |-> TRUE, err |-> "none"]
        ELSE IF old_results = <<>>
        THEN [st |-> st, count |-> 0, failed |-> FALSE, err |-> "none"]
        ELSE IF loop.err # "none"
        THEN [st |-> loop.st, count |-> 0, failed |-> TRUE, err |-> "none"]
        ELSE [st |-> loop.st, count |-> loop.count, failed |-> FALSE, err |-> "none"]


(***************************************************************************)
(* The gateway: get_cached_results and run_search                          *)
(***************************************************************************)
ApiOutcomes == { "results", "no_results", "error" }
Response(api) == IF api = "results" THEN WithResults ELSE NoResults

\* (variant) the cached payload is returned without the cache-hit flag
get_cached_results_unflagged(st, query, fault) ==
    LET cached_results == list_results(st, 1, 0, <<query>>, fault)
        cached_data == cached_results.listed[1].rec
    IN  IF cached_results.err # "none"
        THEN [err |-> "none", found |-> FALSE, results |-> <<>>]
        ELSE IF cached_results.listed # <<>> /\ HasKey(cached_data.results, "results")
        THEN [err |-> "none", found |-> TRUE, results |-> cached_data.results]
        ELSE [err |-> "none", found |-> FALSE, results |-> <<>>]

\* (variant) an exception of the lookup is not caught
get_cached_results_raises(st, query, fault) ==
    LET cached_results == list_results(st, 1, 0, <<query>>, fault)
        cached_data == cached_results.listed[1].rec
    IN  IF cached_results.err # "none"
        THEN [err |-> cached_results.err, found |-> FALSE, results |-> <<>>]
        ELSE IF cached_results.listed # <<>> /\ HasKey(cached_data.results, "results")
        THEN [err |-> "none", found |-> TRUE,
              results |-> SetKey(cached_data.results, "_from_cache", PyBool(TRUE))]
        ELSE [err |-> "none", found |-> FALSE, results |-> <<>>]

\* Every exception of the lookup is caught: err is never set.
get_cached_results(st, query, fault) ==
    LET cached_results == list_results(st, 1, 0, <<query>>, fault)
        cached_data == cached_results.listed[1].rec
    IN  IF cached_results.err # "none"
        THEN [err |-> "none", found |-> FALSE, results |-> <<>>]
        ELSE IF cached_results.listed # <<>> /\ HasKey(cached_data.results, "results")
        THEN [err |-> "none", found |-> TRUE,
              results |-> SetKey(cached_data.results, "_from_cache", PyBool(TRUE))]
        ELSE [err |-> "none", found |-> FALSE, results |-> <<>>]

\* (variant) a fresh response is returned without being saved
run_search_skips_save(st, now, query, api, cache_fault, save_fault) ==
    LET cached == get_cached_results(st, query, cache_fault)
        response == SetKey(Response(api), "_from_cache", PyBool(FALSE))
    IN  IF cached.found
        THEN [st |-> st, err |-> "none", out |-> cached.results, hit |-> TRUE,
              api |-> 0, saving |-> FALSE, saved |-> FALSE, id |-> NoId]
        ELSE IF api = "error"
        THEN [st |-> st, err |-> "SearchError", out |-> <<>>, hit |-> FALSE,
              api |-> 1, saving |-> FALSE, saved |-> FALSE, id |-> NoId]
        ELSE IF HasKey(Response(api), "results")
        THEN [st |-> st, err |-> "none", out |-> response, hit |-> FALSE,
              api |-> 1, saving |-> FALSE, saved |-> FALSE, id |-> NoId]
        ELSE [st |-> st, err |-> "none", out |-> Response(api), hit |-> FALSE,
              api |-> 1, saving |-> FALSE, saved |-> FALSE, id |-> NoId]

\* (variant) an exception of the save reaches the caller
run_search_raises_on_save(st, now, query, api, cache_fault, save_fault) ==
    LET cached == get_cached_results(st, query, cache_fault)
        response == SetKey(Response(api), "_from_cache", PyBool(FALSE))
        saved == save_results(st, now, query, response, save_fault)
    IN  IF cached.found
        THEN [st |-> st, err |-> "none", out |-> cached.results, hit |-> TRUE,
              api |-> 0, saving |-> FALSE, saved |-> FALSE, id |-> NoId]
        ELSE IF api = "error"
        THEN [st |-> st, err |-> "SearchError", out |-> <<>>, hit |-> FALSE,
              api |-> 1, saving |-> FALSE, saved |-> FALSE, id |-> NoId]
        ELSE IF HasKey(Response(api), "results")
        THEN [st |-> saved.st,
              err |-> IF saved.err = "none" THEN "none" ELSE "SearchError",
              out |-> IF saved.err = "none" THEN response ELSE <<>>,
              hit |-> FALSE,
              api |-> 1, saving |-> TRUE, saved |-> saved.err = "none", id |-> saved.id]
        ELSE [st |-> st, err |-> "none", out |-> Response(api), hit |-> FALSE,
              api |-> 1, saving |-> FALSE, saved |-> FALSE, id |-> NoId]

\* (variant) a failure of the external search is answered with an empty result
run_search_returns_empty_on_error(st, now, query, api, cache_fault, save_fault) ==
    LET cached == get_cached_results(st, query, cache_fault)
        response == SetKey(Response(api), "_from_cache", PyBool(FALSE))
        saved == save_results(st, now, query, response, save_fault)
    IN  IF cached.found
        THEN [st |-> st, err |-> "none", out |-> cached.results, hit |-> TRUE,
              api |-> 0, saving |-> FALSE, saved |-> FALSE, id |-> NoId]
        ELSE IF api = "error"
        THEN [st |-> st, err |-> "none", out |-> <<>>, hit |-> FALSE,
              api |-> 1, saving |-> FALSE, saved |-> FALSE, id |-> NoId]
        ELSE IF HasKey(Response(api), "results")
        THEN [st |-> saved.st, err |-> "none", out |-> response, hit |-> FALSE,
              api |-> 1, saving |-> TRUE, saved |-> saved.err = "none", id |-> saved.id]
        ELSE [st |-> st, err |-> "none", out |-> Response(api), hit |-> FALSE,
              api |-> 1, saving |-> FALSE, saved |-> FALSE, id |-> NoId]

\* (variant) a cache hit writes the flagged payload back to the store
run_search_saves_hit(st, now, query, api, cache_fault, save_fault) ==
    LET cached == get_cached_results(st, query, cache_fault)
        response == SetKey(Response(api), "_from_cache", PyBool(FALSE))
        saved == save_results(st, now, query, response, save_fault)
    IN  IF cached.found
        THEN [st |-> save_results(st, now, query, cached.results, 0).st,
              err |-> "none", out |-> cached.results, hit |-> TRUE,
              api |-> 0, saving |-> FALSE, saved |-> FALSE, id |-> NoId]
        ELSE IF api = "error"
        THEN [st |-> st, err |-> "SearchError", out |-> <<>>, hit |-> FALSE,
              api |-> 1, saving |-> FALSE, saved |-> FALSE, id |-> NoId]
        ELSE IF HasKey(Response(api), "results")
        THEN [st |-> saved.st, err |-> "none", out |-> response, hit |-> FALSE,
              api |-> 1, saving |-> TRUE, saved |-> saved.err = "none", id |-> saved.id]
        ELSE [st |-> st, err |-> "none", out |-> Response(api), hit |-> FALSE,
              api |-> 1, saving |-> FALSE, saved |-> FALSE, id |-> NoId]

\* run_search, with TAVILY_API_KEY configured.  An exception of the lookup,
\* were one to escape, is wrapped by the outer handler into SearchError before
\* the external search is reached.
run_search(st, now, query, api, cache_fault, save_fault) ==
    LET cached == get_cached_results(st, query, cache_fault)
        response == SetKey(Response(api), "_from_cache", PyBool(FALSE))
        saved == save_results(st, now, query, response, save_fault)
    IN  IF cached.err # "none"
        THEN [st |-> st, err |-> "SearchError", out |-> <<>>, hit |-> FALSE,
              api |-> 0, saving |-> FALSE, saved |-> FALSE, id |-> NoId]
        ELSE IF cached.found
        THEN [st |-> st, err |-> "none", out |-> cached.results, hit |-> TRUE,
              api |-> 0, saving |-> FALSE, saved |-> FALSE, id |-> NoId]
        ELSE IF api = "error"
        THEN [st |-> st, err |-> "SearchError", out |-> <<>>, hit |-> FALSE,
              api |-> 1, saving |-> FALSE, saved |-> FALSE, id |-> NoId]
        ELSE IF HasKey(Response(api), "results")
        THEN [st |-> saved.st, err |-> "none", out |-> response, hit |-> FALSE,
              api |-> 1, saving |-> TRUE, saved |-> saved.err = "none", id |-> saved.id]
        ELSE [st |-> st, err |-> "none", out |-> Response(api), hit |-> FALSE,
              api |-> 1, saving |-> FALSE, saved |-> FALSE, id |-> NoId]

\* The search options of run_search: the defaults of the command line, and
\* each option changed in turn.
DefaultOptions ==
    [max_results |-> 10, search_depth |-> "basic", include_raw |-> FALSE,
     include_domains |-> <<>>, exclude_domains |-> <<>>, include_answer |-> "advanced"]

SearchOptions ==
    { DefaultOptions,
      [DefaultOptions EXCEPT !.max_results = 5],
      [DefaultOptions EXCEPT !.search_depth = "comprehensive"],
      [DefaultOptions EXCEPT !.include_raw = TRUE],
      [DefaultOptions EXCEPT !.include_domains = <<"example.com">>],
      [DefaultOptions EXCEPT !.exclude_domains = <<"example.com">>],
      [DefaultOptions EXCEPT !.include_answer = "false"] }

\* client.search(**search_params): what the external search answers depends
\* on the options; an answer is part of it unless include_answer is False.
client_search(api, options) ==
    IF api = "results" /\ options.include_answer # "false"
    THEN WithResults \o NoResults
    ELSE Response(api)

\* (variant) the cache is consulted only for a search without raw content
get_cached_results_unless_raw(st, query, options, fault) ==
    IF options.include_raw
    THEN [err |-> "none", found |-> FALSE, results |-> <<>>]
    ELSE get_cached_results(st, query, fault)

\* get_cached_results with its option parameters, none of which its body reads.
get_cached_results_with_options(st, query, options, fault) ==
    get_cached_results(st, query, fault)

\* run_search with its option parameters: they are handed to the lookup and,
\* on a miss, to the external search.
run_search_with_options(st, now, query, options, api, cache_fault, save_fault) ==
    LET cached == get_cached_results_with_options(st, query, options, cache_fault)
        answered == client_search(api, options)
        response == SetKey(answered, "_from_cache", PyBool(FALSE))
        saved == save_results(st, now, query, response, save_fault)
    IN  IF cached.err # "none"
        THEN [st |-> st, err |-> "SearchError", out |-> <<>>, hit |-> FALSE,
              api |-> 0, saving |-> FALSE, saved |-> FALSE, id |-> NoId]
        ELSE IF cached.found
        THEN [st |-> st, err |-> "none", out |-> cached.results, hit |-> TRUE,
              api |-> 0, saving |-> FALSE, saved |-> FALSE, id |-> NoId]
        ELSE IF api = "error"
        THEN [st |-> st, err |-> "SearchError", out |-> <<>>, hit |-> FALSE,
              api |-> 1, saving |-> FALSE, saved |-> FALSE, id |-> NoId]
        ELSE IF HasKey(answered, "results")
        THEN [st |-> saved.st, err |-> "none", out |-> response, hit |-> FALSE,
              api |-> 1, saving |-> TRUE, saved |-> saved.err = "none", id |-> saved.id]
        ELSE [st |-> st, err |-> "none", out |-> answered, hit |-> FALSE,
              api |-> 1, saving |-> FALSE, saved |-> FALSE, id |-> NoId]

(***************************************************************************)
(* The command line: cli in search mode                                    *)
(***************************************************************************)
\* What cli does with the outcome of run_search: save_results of what was
\* returned, unless it is flagged _from_cache.  Each save takes one tick;
\* saves counts the save_results calls made, inside run_search and by cli
\* itself.  A SearchError ends the command with exit code 1.
cli_after_search(search_results, now, query) ==
    LET inner == IF search_results.saving THEN 1 ELSE 0
        searched == IF search_results.saving
                    THEN Expire(search_results.st, now + 1) ELSE search_results.st
        from_cache == /\ HasKey(search_results.out, "_from_cache")
                      /\ GetKey(search_results.out, "_from_cache") = PyBool(TRUE)
        file_path == save_results(searched, now + inner, query, search_results.out, 0)
    IN  IF search_results.err # "none"
        THEN [st |-> search_results.st, err |-> search_results.err, exit_code |-> 1,
              hit |-> FALSE, saves |-> 0, out |-> <<>>, id |-> NoId]
        ELSE IF from_cache
        THEN [st |-> searched, err |-> "none", exit_code |-> 0,
              hit |-> TRUE, saves |-> 0, out |-> search_results.out, id |-> NoId]
        ELSE [st |-> Expire(file_path.st, now + inner + 1), err |-> "none", exit_code |-> 0,
              hit |-> FALSE, saves |-> inner + 1, out |-> search_results.out,
              id |-> file_path.id]

\* cli in search mode: cleanup(days=retention_days), then run_search, then
\* the save of its outcome.
cli_search(st, now, query, retention_days, options, api) ==
    cli_after_search(
        run_search_with_options(cleanup(st, now, retention_days, NoFault).st,
                                now, query, options, api, 0, 0),
        now, query)

(***************************************************************************)
(* The state machine                                                       *)
(***************************************************************************)
MaxLimit == 2
MaxOffset == 1
MaxDays == 1

Blank ==
    [op |-> "init", query |-> <<>>, payload |-> <<>>, id |-> NoId, limit |-> 0,
     offset |-> 0, days |-> 0, faulted |-> FALSE, err |-> "none", found |-> FALSE,
     rec |-> NoRecord, listed |-> <<>>, ok |-> FALSE, count |-> 0, hit |-> FALSE,
     api |-> 0, out |-> <<>>, saving |-> FALSE, saved |-> FALSE, after_save |-> FALSE,
     slug |-> <<>>, item |-> 0, step |-> 0, options |-> DefaultOptions]

IndexMembers(st) == UNION { Members(st.sorted_sets[key]) : key \in DOMAIN st.sorted_sets }
KnownIds == ResultIds(Store) \cup IndexMembers(Store) \cup { last.id }

SetStore(st) ==
    /\ data' = st.data
    /\ expiry' = st.expiry
    /\ sorted_sets' = st.sorted_sets

\* Concurrent callers of the backend, and a caller that is in no call.
Procs == { "p", "q" }
IdleProc ==
    [op |-> "none", pc |-> "idle", query |-> <<>>, payload |-> <<>>, id |-> NoId,
     stored_query |-> <<>>, found |-> FALSE, todo |-> <<>>, days |-> 0, count |-> 0,
     removed |-> {}, raced |-> {}, live |-> {}, ok |-> FALSE]

\* RedisStorageBackend.__init__: a RedisError of the connection or of the
\* ping is caught, and the client becomes a new MockRedisClient.
RedisStorageBackend_init(reachable) ==
    [err |-> "none", is_mock |-> ~reachable]

InitKeyspace ==
    /\ clock = 0
    /\ ttl_days \in TtlDays
    /\ data = << >>
    /\ expiry = << >>
    /\ sorted_sets = << >>
    /\ saves_only = 0
    /\ redis_backend = 0
    /\ pc = [t \in Threads |-> "idle"]
    /\ made = [t \in Threads |-> 0]
    /\ returned = [t \in Threads |-> <<>>]
    /\ constructed = 0
    /\ procs = [p \in Procs |-> IdleProc]

\* The backend constructed with the Redis server reachable.
Init ==
    /\ InitKeyspace
    /\ last = Blank
    /\ is_mock = RedisStorageBackend_init(TRUE).is_mock

\* The backend constructed with the Redis server reachable or not.
InitConstruct ==
    /\ InitKeyspace
    /\ \E reachable \in BOOLEAN :
        \E r \in { RedisStorageBackend_init(reachable) } :
            /\ is_mock = r.is_mock
            /\ last = [Blank EXCEPT !.op = "construct", !.faulted = ~reachable, !.err = r.err]

\* Time passes; keys that reach their expiry are removed by the backend.
Tick ==
    /\ clock < MaxClock
    /\ clock' = clock + 1
    /\ SetStore(Expire(Store, clock + 1))
    /\ last' = [Blank EXCEPT !.op = "tick"]
    /\ saves_only' = IF Expire(Store, clock + 1) = Store THEN saves_only ELSE 0 - 1
    /\ UNCHANGED ttl_days
    /\ UNCHANGED <<is_mock, procs, singleton>>

\* save_results(query, results); the call takes one tick
SaveOf(queries, payloads, faults) ==
    \E query \in queries, results \in payloads, fault \in faults :
        \E r \in { save_results(Store, clock, query, results, fault) } :
        \E st \in { Expire(r.st, clock + 1) } :
            /\ clock < MaxClock
            /\ clock' = clock + 1
            /\ SetStore(st)
            /\ last' = [Blank EXCEPT !.op = "save", !.query = <<query>>, !.payload = results,
                                     !.faulted = r.err # "none", !.err = r.err, !.id = r.id,
                                     !.step = IF r.err # "none" THEN fault ELSE 0]
            /\ saves_only' = IF saves_only >= 0 /\ r.err = "none" /\ st = r.st
                             THEN saves_only + 1 ELSE 0 - 1
            /\ UNCHANGED ttl_days
            /\ UNCHANGED <<is_mock, procs, singleton>>

SaveWith(faults) == SaveOf(Queries, Payloads, faults)

\* get_results(identifier); after_save: the call before it was the save that
\* returned this identifier, whose arguments are kept.
GetWith(faults) ==
    \E identifier \in KnownIds, fault \in faults :
        \E r \in { get_results(Store, identifier, fault) } :
        \E after_save \in { last.op = "save" /\ last.err = "none" /\ last.id = identifier } :
            /\ last' = [Blank EXCEPT !.op = "get", !.id = identifier,
                                     !.faulted = r.err # "none", !.err = r.err,
                                     !.found = r.found, !.rec = r.rec,
                                     !.after_save = after_save,
                                     !.query = IF after_save THEN last.query ELSE <<>>,
                                     !.payload = IF after_save THEN last.payload ELSE <<>>]
            /\ UNCHANGED <<clock, ttl_days, data, expiry, sorted_sets, saves_only>>
            /\ UNCHANGED <<is_mock, procs, singleton>>

\* list_results(limit, offset, query)
ListWith(faults) ==
    \E limit \in 0..MaxLimit, offset \in 0..MaxOffset,
       query \in { <<>> } \cup { <<q>> : q \in Queries }, fault \in faults :
        \E r \in { list_results(Store, limit, offset, query, fault) } :
            /\ last' = [Blank EXCEPT !.op = "list", !.query = query, !.limit = limit,
                                     !.offset = offset, !.faulted = r.err # "none",
                                     !.err = r.err, !.listed = r.listed]
            /\ UNCHANGED <<clock, ttl_days, data, expiry, sorted_sets, saves_only>>
            /\ UNCHANGED <<is_mock, procs, singleton>>

\* delete_results(identifier)
DeleteWith(faults) ==
    \E identifier \in KnownIds, fault \in faults :
        \E r \in { delete_results(Store, identifier, fault) } :
            /\ SetStore(r.st)
            /\ last' = [Blank EXCEPT !.op = "delete", !.id = identifier,
                                     !.faulted = r.err # "none", !.err = r.err, !.ok = r.ok]
            /\ saves_only' = 0 - 1
            /\ UNCHANGED <<clock, ttl_days>>
            /\ UNCHANGED <<is_mock, procs, singleton>>

\* cleanup(max_age_days)
CleanupWith(faults) ==
    \E max_age_days \in 0..MaxDays, fault \in faults :
        \E r \in { cleanup(Store, clock, max_age_days, fault) } :
            /\ SetStore(r.st)
            /\ last' = [Blank EXCEPT !.op = "cleanup", !.days = max_age_days,
                                     !.faulted = r.failed, !.count = r.count,
                                     !.err = r.err,
                                     !.item = IF r.failed THEN fault.item ELSE 0,
                                     !.step = IF r.failed THEN fault.step ELSE 0]
            /\ saves_only' = 0 - 1
            /\ UNCHANGED <<clock, ttl_days>>
            /\ UNCHANGED <<is_mock, procs, singleton>>

\* run_search(query, ...): the lookup may fail at cache_fault, the external
\* search answers api, the save of a fresh response may fail at save_fault
\* and takes one tick.
RunSearchWith(cache_faults, save_faults) ==
    \E query \in Queries, api \in ApiOutcomes,
       cache_fault \in cache_faults, save_fault \in save_faults :
        \E r \in { run_search(Store, clock, query, api, cache_fault, save_fault) } :
        \E looked \in { list_results(Store, 1, 0, <<query>>, cache_fault) } :
            /\ r.saving => clock < MaxClock
            /\ clock' = IF r.saving THEN clock + 1 ELSE clock
            /\ SetStore(IF r.saving THEN Expire(r.st, clock + 1) ELSE r.st)
            /\ last' = [Blank EXCEPT !.op = "run_search", !.query = <<query>>,
                                     !.faulted = looked.err # "none", !.err = r.err,
                                     !.hit = r.hit, !.api = r.api, !.out = r.out,
                                     !.saving = r.saving, !.saved = r.saved, !.id = r.id]
            /\ saves_only' = 0 - 1
            /\ UNCHANGED ttl_days
            /\ UNCHANGED <<is_mock, procs, singleton>>

Save == SaveWith({0})
Get == GetWith({0})
List == ListWith({0})
Delete == DeleteWith({0})
Cleanup == CleanupWith({NoFault})
RunSearch == RunSearchWith(0..3, 0..1)

\* The storage backend, every backend call succeeding.
Next == Tick \/ Save \/ Get \/ List \/ Delete \/ Cleanup

Spec == Init /\ [][Next]_vars

\* The storage backend with backend calls that raise.
CleanupFaults ==
    { NoFault, [item |-> 0, step |-> 1] }
        \cup { [item |-> i, step |-> f] : i \in 1..MaxItems, f \in 1..4 }

SaveFaulty == SaveOf(Queries, {WithResults}, 0..4)
CleanupFaulty == CleanupWith(CleanupFaults)

NextFaults == Tick \/ SaveFaulty \/ CleanupFaulty

SpecFaults == Init /\ [][NextFaults]_vars

\* The storage backend saving queries of one slug.
SaveSameSlug == SaveOf(SameSlugQueries, Payloads, {0})

NextCollision == Tick \/ SaveSameSlug \/ Delete

SpecCollision == Init /\ [][NextCollision]_vars

\* _slugify applied to a text.
Slugify ==
    \E text \in Texts :
        /\ last' = [Blank EXCEPT !.op = "slugify", !.query = <<text>>, !.slug = slugify(text)]
        /\ UNCHANGED <<clock, ttl_days, data, expiry, sorted_sets, saves_only>>
        /\ UNCHANGED <<is_mock, procs, singleton>>

NextSlug == Slugify

SpecSlug == Init /\ [][NextSlug]_vars

\* _get_redis_backend called by threads.  A thread is preempted between the
\* test of the global, the constructor call, the assignment and the return.
Call(t) ==
    /\ pc[t] = "idle" /\ Len(returned[t]) < MaxCalls
    /\ pc' = [pc EXCEPT ![t] = "test"]
    /\ UNCHANGED <<redis_backend, made, returned, constructed>>
    /\ UNCHANGED store_vars

\* if _redis_backend is None:
TestNone(t) ==
    /\ pc[t] = "test"
    /\ pc' = [pc EXCEPT ![t] = IF redis_backend = 0 THEN "construct" ELSE "return"]
    /\ UNCHANGED <<redis_backend, made, returned, constructed>>
    /\ UNCHANGED store_vars

\* RedisStorageBackend(host=host, port=port)
Construct(t) ==
    /\ pc[t] = "construct"
    /\ constructed' = constructed + 1
    /\ made' = [made EXCEPT ![t] = constructed + 1]
    /\ pc' = [pc EXCEPT ![t] = "assign"]
    /\ UNCHANGED <<redis_backend, returned>>
    /\ UNCHANGED store_vars

\* _redis_backend = ...
Assign(t) ==
    /\ pc[t] = "assign"
    /\ redis_backend' = made[t]
    /\ pc' = [pc EXCEPT ![t] = "return"]
    /\ UNCHANGED <<made, returned, constructed>>
    /\ UNCHANGED store_vars

\* return _redis_backend
Return(t) ==
    /\ pc[t] = "return"
    /\ returned' = [returned EXCEPT ![t] = Append(returned[t], redis_backend)]
    /\ pc' = [pc EXCEPT ![t] = "idle"]
    /\ UNCHANGED <<redis_backend, made, constructed>>
    /\ UNCHANGED store_vars

NextSingleton ==
    \E t \in Threads : Call(t) \/ TestNone(t) \/ Construct(t) \/ Assign(t) \/ Return(t)

SpecSingleton == Init /\ [][NextSingleton]_vars

\* The backend from its construction on.
NextConstruct == Tick \/ Save \/ Delete

SpecConstruct == InitConstruct /\ [][NextConstruct]_vars

\* Concurrent calls of save_results, delete_results and cleanup: every backend
\* call is one atomic step, and a caller can be preempted between two of them.
\* The keyspace is first filled by whole saves; the clock stands still while
\* the concurrent calls run.
Untouched == \A p \in Procs : procs[p] = IdleProc
race_frame == <<clock, ttl_days, last, saves_only, is_mock, singleton>>

SetUpSave == Untouched /\ SaveOf(Queries, {WithResults}, {0})

\* (variant) the record is deleted first, the index entries after it
delete_next_record_first(at, query) ==
    CASE at = "get" -> "del"
      [] at = "del" -> "zrem_all"
      [] at = "zrem_all" -> IF query # <<>> THEN "zrem_query" ELSE "return"
      [] at = "zrem_query" -> "return"

\* The backend call of delete_results that follows the one at `at`.
delete_next(at, query) ==
    CASE at = "get" -> "zrem_all"
      [] at = "zrem_all" -> IF query # <<>> THEN "zrem_query" ELSE "del"
      [] at = "zrem_query" -> "del"
      [] at = "del" -> "return"

\* (variant) the delete reports success whatever DEL removed
delete_returns_always(deleted) == TRUE

\* return deleted > 0
delete_returns(deleted) == deleted > 0

\* Where a caller goes when its delete_results returns: out of the call, or
\* back into the loop of cleanup.
AfterDelete(p) == IF procs[p].op = "delete" THEN "done" ELSE "next"
Goto(p, at) == IF at = "return" THEN AfterDelete(p) ELSE at

BeginSave(p) ==
    /\ procs[p].pc = "idle"
    /\ \E query \in Queries :
          procs' = [procs EXCEPT ![p] =
              [IdleProc EXCEPT !.op = "save", !.pc = "set", !.query = query,
                               !.payload = WithResults, !.live = ResultIds(Store),
                               !.id = [ts |-> clock \div TicksPerSecond, slug |-> slugify(query)]]]
    /\ UNCHANGED <<data, expiry, sorted_sets>>
    /\ UNCHANGED race_frame

\* self.redis_client.set(result_key, json.dumps(results_with_metadata))
SaveSet(p) ==
    /\ procs[p].pc = "set"
    /\ SetStore(redis_set(Store, make_key("result", procs[p].id),
                           json_dumps([query |-> procs[p].query, timestamp |-> clock,
                                       results |-> procs[p].payload])))
    /\ procs' = [procs EXCEPT ![p].pc = IF ttl_days > 0 THEN "expire" ELSE "zadd_all"]
    /\ UNCHANGED race_frame

\* self.redis_client.expire(result_key, seconds)
SaveExpire(p) ==
    /\ procs[p].pc = "expire"
    /\ SetStore(redis_expire(Store, make_key("result", procs[p].id), Seconds(ttl_days), clock))
    /\ procs' = [procs EXCEPT ![p].pc = "zadd_all"]
    /\ UNCHANGED race_frame

\* self.redis_client.zadd(index_key, {identifier: time.time()})
SaveZaddAll(p) ==
    /\ procs[p].pc = "zadd_all"
    /\ SetStore(zadd(Store, make_key("index", AllIndex), procs[p].id, clock))
    /\ procs' = [procs EXCEPT ![p].pc = "zadd_query"]
    /\ UNCHANGED race_frame

\* self.redis_client.zadd(query_key, {identifier: time.time()}); return identifier
SaveZaddQuery(p) ==
    /\ procs[p].pc = "zadd_query"
    /\ SetStore(zadd(Store, make_key("query", slugify(procs[p].query)), procs[p].id, clock))
    /\ procs' = [procs EXCEPT ![p].pc = "done", ![p].ok = TRUE]
    /\ UNCHANGED race_frame

BeginDelete(p) ==
    /\ procs[p].pc = "idle"
    /\ \E identifier \in ResultIds(Store) \cup IndexMembers(Store) :
          procs' = [procs EXCEPT ![p] =
              [IdleProc EXCEPT !.op = "delete", !.pc = "get", !.id = identifier,
                               !.live = ResultIds(Store)]]
    /\ UNCHANGED <<data, expiry, sorted_sets>>
    /\ UNCHANGED race_frame

\* result_data = self.get_results(identifier); if not result_data: return False
DeleteGet(p) ==
    /\ procs[p].pc = "get"
    /\ \E r \in { get_results(Store, procs[p].id, 0) } :
          procs' = [procs EXCEPT ![p].found = r.found,
                                 ![p].stored_query = r.rec.query,
                                 ![p].ok = FALSE,
                                 ![p].pc = IF r.found THEN Goto(p, delete_next("get", r.rec.query))
                                           ELSE AfterDelete(p)]
    /\ UNCHANGED <<data, expiry, sorted_sets>>
    /\ UNCHANGED race_frame

\* self.redis_client.zrem(index_key, identifier)
DeleteZremAll(p) ==
    /\ procs[p].pc = "zrem_all"
    /\ SetStore(zrem(Store, make_key("index", AllIndex), procs[p].id))
    /\ procs' = [procs EXCEPT ![p].pc = Goto(p, delete_next("zrem_all", procs[p].stored_query))]
    /\ UNCHANGED race_frame

\* self.redis_client.zrem(query_key, identifier)
DeleteZremQuery(p) ==
    /\ procs[p].pc = "zrem_query"
    /\ SetStore(zrem(Store, make_key("query", slugify(procs[p].stored_query)), procs[p].id))
    /\ procs' = [procs EXCEPT ![p].pc = Goto(p, delete_next("zrem_query", procs[p].stored_query))]
    /\ UNCHANGED race_frame

\* deleted = self.redis_client.delete(result_key); return deleted > 0
\* (in cleanup: if self.delete_results(identifier): count += 1)
DeleteDel(p) ==
    /\ procs[p].pc = "del"
    /\ \E deleted \in { IF make_key("result", procs[p].id) \in DOMAIN data THEN 1 ELSE 0 } :
        \E ok \in { delete_returns(deleted) } :
          /\ SetStore(redis_delete(Store, make_key("result", procs[p].id)))
          /\ procs' = [procs EXCEPT
                ![p].ok = ok,
                ![p].count = IF ok /\ procs[p].op = "cleanup" THEN @ + 1 ELSE @,
                ![p].removed = IF ok THEN @ \cup {procs[p].id} ELSE @,
                ![p].raced = IF ok THEN @ ELSE @ \cup {procs[p].id},
                ![p].pc = Goto(p, delete_next("del", procs[p].stored_query))]
    /\ UNCHANGED race_frame

BeginCleanup(p) ==
    /\ procs[p].pc = "idle"
    /\ \E max_age_days \in 0..MaxDays :
          procs' = [procs EXCEPT ![p] =
              [IdleProc EXCEPT !.op = "cleanup", !.pc = "range", !.days = max_age_days,
                               !.live = ResultIds(Store)]]
    /\ UNCHANGED <<data, expiry, sorted_sets>>
    /\ UNCHANGED race_frame

\* old_results = self.redis_client.zrangebyscore(index_key, 0, cutoff)
CleanupRange(p) ==
    /\ procs[p].pc = "range"
    /\ procs' = [procs EXCEPT
          ![p].todo = zrangebyscore(Store, make_key("index", AllIndex), 0,
                                    clock - Seconds(procs[p].days) * TicksPerSecond),
          ![p].pc = "next"]
    /\ UNCHANGED <<data, expiry, sorted_sets>>
    /\ UNCHANGED race_frame

\* for identifier in old_results: ... return count
CleanupNext(p) ==
    /\ procs[p].pc = "next"
    /\ procs' = [procs EXCEPT
          ![p].pc = IF procs[p].todo = <<>> THEN "done" ELSE "get",
          ![p].id = IF procs[p].todo = <<>> THEN @ ELSE Head(procs[p].todo),
          ![p].todo = IF procs[p].todo = <<>> THEN @ ELSE Tail(procs[p].todo)]
    /\ UNCHANGED <<data, expiry, sorted_sets>>
    /\ UNCHANGED race_frame

NextRace ==
    \/ SetUpSave
    \/ \E p \in Procs :
          \/ BeginSave(p) \/ SaveSet(p) \/ SaveExpire(p) \/ SaveZaddAll(p) \/ SaveZaddQuery(p)
          \/ BeginDelete(p) \/ DeleteGet(p) \/ DeleteZremAll(p) \/ DeleteZremQuery(p)
          \/ DeleteDel(p)
          \/ BeginCleanup(p) \/ CleanupRange(p) \/ CleanupNext(p)

SpecRace == Init /\ [][NextRace]_vars

\* The gateway over the storage backend.
NextGateway == Tick \/ Save \/ Delete \/ Cleanup \/ RunSearch

SpecGateway == Init /\ [][NextGateway]_vars

\* delete_results with backend calls that raise, over saved records.
DeleteFaulty == DeleteWith(0..4)

NextDeleteFaults == Tick \/ SaveOf(Queries, {WithResults}, {0}) \/ DeleteFaulty

SpecDeleteFaults == Init /\ [][NextDeleteFaults]_vars

\* The operations that read, get_results, list_results and run_search, over
\* saved records, every backend call succeeding.
ReadSearch == RunSearchWith({0}, {0})

NextReads == Tick \/ Save \/ Get \/ List \/ ReadSearch

SpecReads == Init /\ [][NextReads]_vars

\* run_search called with search options, every backend call succeeding.
RunSearchOptions ==
    \E query \in Queries, options \in SearchOptions, api \in ApiOutcomes :
        \E r \in { run_search_with_options(Store, clock, query, options, api, 0, 0) } :
            /\ r.saving => clock < MaxClock
            /\ clock' = IF r.saving THEN clock + 1 ELSE clock
            /\ SetStore(IF r.saving THEN Expire(r.st, clock + 1) ELSE r.st)
            /\ last' = [Blank EXCEPT !.op = "run_search", !.query = <<query>>,
                                     !.options = options, !.err = r.err,
                                     !.hit = r.hit, !.api = r.api, !.out = r.out,
                                     !.saving = r.saving, !.saved = r.saved, !.id = r.id]
            /\ saves_only' = 0 - 1
            /\ UNCHANGED ttl_days
            /\ UNCHANGED <<is_mock, procs, singleton>>

NextOptions == Tick \/ RunSearchOptions

SpecOptions == Init /\ [][NextOptions]_vars

\* The command line in search mode, one invocation after another.
CliSearch ==
    \E query \in Queries, retention_days \in 0..MaxDays,
       options \in { DefaultOptions }, api \in ApiOutcomes :
        \E r \in { cli_search(Store, clock, query, retention_days, options, api) } :
            /\ clock + r.saves <= MaxClock
            /\ clock' = clock + r.saves
            /\ SetStore(r.st)
            /\ last' = [Blank EXCEPT !.op = "cli_search", !.query = <<query>>,
                                     !.days = retention_days, !.options = options,
                                     !.err = r.err, !.hit = r.hit, !.count = r.saves,
                                     !.out = r.out, !.id = r.id]
            /\ saves_only' = 0 - 1
            /\ UNCHANGED ttl_days
            /\ UNCHANGED <<is_mock, procs, singleton>>

NextCli == Tick \/ CliSearch

SpecCli == Init /\ [][NextCli]_vars

\* The in-memory client that stands in for an unreachable server: zadd and
\* zrem applied to one sorted set, with any members and scores.
MaxScore == 2
MockMembers == { [ts |-> t, slug |-> <<>>] : t \in 0..2 }

InitMock ==
    /\ InitKeyspace
    /\ last = Blank
    /\ is_mock = RedisStorageBackend_init(FALSE).is_mock

MockZadd ==
    \E member \in MockMembers, score \in 0..MaxScore :
        /\ SetStore(zadd(Store, make_key("index", AllIndex), member, score))
        /\ last' = [Blank EXCEPT !.op = "zadd", !.id = member]
        /\ UNCHANGED <<clock, ttl_days, saves_only>>
        /\ UNCHANGED <<is_mock, procs, singleton>>

MockZrem ==
    \E member \in MockMembers :
        /\ SetStore(zrem(Store, make_key("index", AllIndex), member))
        /\ last' = [Blank EXCEPT !.op = "zrem", !.id = member]
        /\ UNCHANGED <<clock, ttl_days, saves_only>>
        /\ UNCHANGED <<is_mock, procs, singleton>>

NextMock == MockZadd \/ MockZrem

SpecMock == InitMock /\ [][NextMock]_vars

(***************************************************************************)
(* Properties                                                              *)
(***************************************************************************)
GlobalIndex(st) == Members(ZSet(st, make_key("index", AllIndex)))
QueryIndex(st, query) == Members(ZSet(st, make_key("query", slugify(query))))
ResultKey(identifier) == make_key("result", identifier)
TtlTicks == Seconds(ttl_days) * TicksPerSecond

\* C1: in every state, every identifier of a per-query index is in the global
\* index, and every identifier of either index has its record in the backend.
C1_IndexesReferenceLiveRecords ==
    \A key \in DOMAIN sorted_sets :
        \A identifier \in Members(sorted_sets[key]) :
            /\ identifier \in GlobalIndex(Store)
            /\ ResultKey(identifier) \in DOMAIN data

C3_SavedIsIndexed ==
    (last.op = "save" /\ last.err = "none") =>
        /\ last.id \in GlobalIndex(Store)
        /\ last.id \in QueryIndex(Store, last.query[1])
        /\ ResultKey(last.id) \in DOMAIN data

C3_Witness ==
    /\ last.op = "save" /\ last.err = "none"
    /\ last.query = << <<"A", " ">> >>
    /\ last.id.slug = <<"a", "-">>

\* C4: delete_results of a live identifier returns true, and then the record
\* is absent and the identifier is in no index; a second delete_results of
\* the same identifier returns false.
C4_DeleteTwice ==
    [][ (last'.op = "delete" /\ last'.err = "none") =>
            /\ ResultKey(last'.id) \in DOMAIN data =>
                  /\ last'.ok
                  /\ ResultKey(last'.id) \notin DOMAIN data'
                  /\ last'.id \notin IndexMembers(Store')
            /\ (last.op = "delete" /\ last.ok /\ last.id = last'.id) => ~last'.ok
      ]_vars

\* C5 as claimed: cleanup(0) on a store that only saves have written removes
\* every record and returns the number of those saves, and a following list
\* is empty.
C5_EvictZeroCountsSaves ==
    [][ (last'.op = "cleanup" /\ last'.days = 0 /\ saves_only >= 0) =>
            /\ last'.count = saves_only
            /\ ResultIds(Store') = {}
            /\ \A limit \in 0..MaxLimit : list_results(Store', limit, 0, <<>>, 0).listed = <<>>
      ]_vars

\* C5 as amended: cleanup(0) removes every record and returns the number of
\* records that were live (one per distinct identifier saved and not expired),
\* and a following list is empty.
C5_EvictZeroCountsRecords ==
    [][ (last'.op = "cleanup" /\ last'.days = 0 /\ ~last'.faulted) =>
            /\ last'.count = Cardinality(ResultIds(Store))
            /\ ResultIds(Store') = {}
            /\ \A limit \in 0..MaxLimit : list_results(Store', limit, 0, <<>>, 0).listed = <<>>
      ]_vars

C5_Witness ==
    /\ last.op = "cleanup" /\ last.days = 0
    /\ last.count = 2
    /\ ResultIds(Store) = {}

\* C6: with ttl_days > 0, after get_results of a live record the record's
\* remaining time-to-live is the full configured TTL.
C6_FetchRefreshesTtl ==
    (last.op = "get" /\ last.found /\ ttl_days > 0) =>
        /\ ResultKey(last.id) \in DOMAIN expiry
        /\ expiry[ResultKey(last.id)] - clock = TtlTicks

\* C7: when the per-query list with limit 1 finds a record whose payload has
\* a results field, run_search returns that payload flagged _from_cache = True,
\* calls the external search not at all and writes nothing.
C7_HitServedFromCache ==
    [][ \A q \in Queries :
          LET looked == list_results(Store, 1, 0, <<q>>, 0).listed
              stored == looked[1].rec.results
              out == last'.out
          IN  ( /\ last'.op = "run_search" /\ last'.query = <<q>> /\ ~last'.faulted
                /\ looked # <<>>
                /\ HasKey(stored, "results") ) =>
                  /\ last'.hit /\ last'.api = 0 /\ last'.err = "none"
                  /\ HasKey(out, "_from_cache")
                  /\ GetKey(out, "_from_cache") = PyBool(TRUE)
                  /\ \A i \in 1..Len(stored) :
                        stored[i][1] # "_from_cache" =>
                            HasKey(out, stored[i][1]) /\ GetKey(out, stored[i][1]) = stored[i][2]
                  /\ \A i \in 1..Len(out) :
                        out[i][1] # "_from_cache" => HasKey(stored, out[i][1])
                  /\ Store' = Store
      ]_vars

C7_Witness ==
    /\ last.op = "run_search" /\ last.hit /\ last.api = 0
    /\ last.query = << <<"A", " ">> >>
    /\ GetKey(last.out, "results") = PyList(PyStr("page"))

\* C8: a run_search that directly follows a run_search of the same query that
\* missed and saved its response is a cache hit and calls no external search.
\* (Stated for a non-empty query, lookups that raise nothing and a store whose
\* payloads all have a results field.)
C8_MissThenHit ==
    [][ ( /\ last.op = "run_search" /\ ~last.hit /\ last.saved /\ ~last.faulted
          /\ last.query # << <<>> >>
          /\ \A key \in DOMAIN data : HasKey(json_loads(data[key]).results, "results")
          /\ last'.op = "run_search" /\ last'.query = last.query /\ ~last'.faulted ) =>
            (last'.hit /\ last'.api = 0)
      ]_vars

\* C9 as claimed: a run_search that misses and returns has called the external
\* search once, returns the response tagged _from_cache = False and has saved
\* it under the query; when the save succeeded the record is in the store and
\* in both indices.
C9_Saved ==
    last.saved =>
        /\ last.id.slug = slugify(last.query[1])
        /\ ResultKey(last.id) \in DOMAIN data
        /\ json_loads(data[ResultKey(last.id)]).results = last.out
        /\ json_loads(data[ResultKey(last.id)]).query = last.query[1]
        /\ last.id \in GlobalIndex(Store)
        /\ last.id \in QueryIndex(Store, last.query[1])

C9_MissFetchesTagsSaves ==
    (last.op = "run_search" /\ ~last.hit /\ last.err = "none") =>
        /\ last.api = 1
        /\ HasKey(last.out, "_from_cache")
        /\ GetKey(last.out, "_from_cache") = PyBool(FALSE)
        /\ last.saving
        /\ C9_Saved

\* C9 as amended: the same, for a miss whose response has a results field.
C9_MissWithResultsFetchesTagsSaves ==
    (last.op = "run_search" /\ ~last.hit /\ last.err = "none" /\ HasKey(last.out, "results")) =>
        /\ last.api = 1
        /\ HasKey(last.out, "_from_cache")
        /\ GetKey(last.out, "_from_cache") = PyBool(FALSE)
        /\ last.saving
        /\ C9_Saved

C9_Witness ==
    /\ last.op = "run_search" /\ ~last.hit /\ last.api = 1 /\ last.saved
    /\ last.query = << <<"A", " ">> >>
    /\ ResultKey(last.id) \in DOMAIN data

\* C10: when the lookup of run_search raises, the call is a cache miss: the
\* error does not reach the caller and the external search is called.
C10_LookupErrorIsMiss ==
    (last.op = "run_search" /\ last.faulted) =>
        /\ ~last.hit
        /\ last.api = 1
        /\ last.err # "StorageError"

C10_Witness ==
    /\ last.op = "run_search" /\ last.faulted
    /\ last.err = "none" /\ last.api = 1
    /\ IndexMembers(Store) # {}

\* C11: when the external search of a miss succeeds and the save of its
\* response raises, run_search raises nothing and returns the fresh response
\* flagged _from_cache = False.
C11_SaveErrorSwallowed ==
    (last.op = "run_search" /\ last.saving /\ ~last.saved) =>
        /\ last.err = "none"
        /\ ~last.hit
        /\ last.api = 1
        /\ HasKey(last.out, "results")
        /\ GetKey(last.out, "results") = GetKey(WithResults, "results")
        /\ HasKey(last.out, "_from_cache")
        /\ GetKey(last.out, "_from_cache") = PyBool(FALSE)

C11_Witness ==
    /\ last.op = "run_search" /\ last.saving /\ ~last.saved
    /\ last.query = << <<"A", " ">> >>
    /\ last.id = NoId
    /\ ~last.hit

C13_ListReadsQueryIndex ==
    (last.op = "list" /\ last.err = "none") =>
        \A i \in 1..Len(last.listed) :
            IF last.query = <<>>
            THEN last.listed[i].id \in GlobalIndex(Store)
            ELSE /\ last.listed[i].id \in QueryIndex(Store, last.query[1])
                 /\ last.listed[i].id.slug = slugify(last.query[1])
                 /\ slugify(last.listed[i].rec.query) = slugify(last.query[1])

\* C14: when, during cleanup, the delete of one old identifier raises, cleanup
\* raises nothing, the records of the other old identifiers are still deleted
\* and the count returned is the number of records deleted.
C14_DeleteFailureKeepsBatch ==
    [][ LET cutoff == clock - Seconds(last'.days) * TicksPerSecond
            old_results == zrangebyscore(Store, make_key("index", AllIndex), 0, cutoff)
        IN  (last'.op = "cleanup" /\ last'.item >= 1) =>
                /\ last'.err = "none"
                /\ \A j \in 1..Len(old_results) :
                      j # last'.item => ResultKey(old_results[j]) \notin DOMAIN data'
                /\ last'.count = Cardinality(ResultIds(Store) \ ResultIds(Store'))
      ]_vars

C16_SaveFailureNotRolledBack ==
    [][ LET identifier == [ts |-> clock \div TicksPerSecond, slug |-> slugify(last'.query[1])]
            result_key == ResultKey(identifier)
        IN  (last'.op = "save" /\ last'.faulted) =>
                /\ last'.err = "StorageError"
                /\ last'.id = NoId
                /\ last'.step = 1 => Store' = Expire(Store, clock')
                /\ last'.step >= 2 =>
                      /\ result_key \in DOMAIN data'
                      /\ json_loads(data'[result_key]).results = last'.payload
                      /\ json_loads(data'[result_key]).query = last'.query[1]
                /\ last'.step \in {2, 3} => sorted_sets' = sorted_sets
                /\ last'.step = 4 =>
                      /\ identifier \in GlobalIndex(Store')
                      /\ QueryIndex(Store', last'.query[1]) = QueryIndex(Store, last'.query[1])
      ]_vars

C16_Witness ==
    /\ last.op = "save" /\ last.err = "StorageError" /\ last.step = 3
    /\ \E key \in DOMAIN data :
          /\ key.id \notin IndexMembers(Store)
          /\ json_loads(data[key]).results = last.payload

\* C17: when a save_results directly follows a save_results of the same slug
\* and falls in the same clock second, it returns the same identifier; the
\* record under it then has the second call's query and payload, and the
\* identifier occurs once in the global index and once in the per-query index.
C17_SameSecondOverwrites ==
    [][ LET identifier == last'.id
            Count(z) == Cardinality({ i \in 1..Len(z) : z[i].m = identifier })
        IN  ( /\ last.op = "save" /\ last.err = "none"
              /\ last'.op = "save" /\ last'.err = "none"
              /\ slugify(last'.query[1]) = slugify(last.query[1])
              /\ last.id.ts = clock \div TicksPerSecond ) =>
                /\ identifier = last.id
                /\ Cardinality({ key \in DOMAIN data' : key.id = identifier }) = 1
                /\ json_loads(data'[ResultKey(identifier)]).query = last'.query[1]
                /\ json_loads(data'[ResultKey(identifier)]).results = last'.payload
                /\ Count(ZSet(Store', make_key("index", AllIndex))) = 1
                /\ Count(ZSet(Store', make_key("query", slugify(last'.query[1])))) = 1
      ]_vars

C17_Witness ==
    /\ last.op = "save" /\ last.err = "none"
    /\ last.query = << <<"a", "-">> >> /\ last.payload = NoResults
    /\ clock = 2 /\ saves_only = 2
    /\ Cardinality(ResultIds(Store)) = 1
    /\ json_loads(data[ResultKey(last.id)]).query = <<"a", "-">>
    /\ json_loads(data[ResultKey(last.id)]).timestamp = 1

\* C18: for every text, _slugify(text) is the reference normalization of the
\* text: lowercased, runs of non-alphanumeric characters collapsed to one
\* hyphen, hyphens at the ends stripped, cut to 50 characters.
C18_SlugifyIsReference ==
    (last.op = "slugify") => last.slug = reference_slugify(last.query[1])

\* C19: for every text, _slugify(text) neither starts nor ends with a hyphen.
C19_NoEdgeHyphen ==
    (last.op = "slugify" /\ last.slug # <<>>) =>
        /\ last.slug[1] # "-"
        /\ last.slug[Len(last.slug)] # "-"

\* C20: the backend constructor runs at most once, and every call of
\* _get_redis_backend, from whichever thread, returns the same instance.
C20_InitializedOnce ==
    /\ constructed <= 1
    /\ \A t, u \in Threads :
          \A i \in 1..Len(returned[t]), j \in 1..Len(returned[u]) :
              returned[t][i] = returned[u][j]

\* C21: constructing the backend while the Redis server is unreachable fails
\* with StorageError: no backend exists whose client is the in-memory
\* substitute, and so none keeps saved records there.
C21_UnreachableFailsFast ==
    /\ (last.op = "construct" /\ last.faulted) => last.err = "StorageError"
    /\ ~(is_mock /\ last.op = "save" /\ last.err = "none" /\ ResultKey(last.id) \in DOMAIN data)

\* C22: a list_results or a cleanup that reaches, in the index it walks, an
\* identifier whose record is missing removes that identifier from the index.
C22_WalkRemovesDangling ==
    [][ LET index_key == IF last'.query # <<>> /\ last'.query[1] # <<>>
                         THEN make_key("query", slugify(last'.query[1]))
                         ELSE make_key("index", AllIndex)
            all_identifiers == zrangebyscore(Store, index_key, 0, Infinity)
            listed == SubSeq(all_identifiers, last'.offset + 1,
                             Min(last'.offset + last'.limit, Len(all_identifiers)))
            cutoff == clock - Seconds(last'.days) * TicksPerSecond
            old_results == zrangebyscore(Store, make_key("index", AllIndex), 0, cutoff)
        IN  /\ last'.op = "list" =>
                  \A i \in 1..Len(listed) :
                      ResultKey(listed[i]) \notin DOMAIN data =>
                          listed[i] \notin Members(ZSet(Store', index_key))
            /\ last'.op = "cleanup" =>
                  \A i \in 1..Len(old_results) :
                      ResultKey(old_results[i]) \notin DOMAIN data =>
                          old_results[i] \notin GlobalIndex(Store')
      ]_vars

\* C23: delete_results of an identifier whose record is absent returns false,
\* raises nothing and changes no record, no expiry and no index; an index
\* entry of the identifier stays.
C23_DeleteAbsentChangesNothing ==
    [][ (last'.op = "delete" /\ ResultKey(last'.id) \notin DOMAIN data) =>
            /\ ~last'.ok
            /\ last'.err = "none"
            /\ Store' = Store
      ]_vars

C23_Witness ==
    /\ last.op = "delete" /\ ~last.ok /\ last.err = "none"
    /\ ResultKey(last.id) \notin DOMAIN data
    /\ last.id \in GlobalIndex(Store)
    /\ last.id \in QueryIndex(Store, last.id.slug)

\* C24: when no record of the query's slug is present while identifiers of it
\* remain in its per-query index, a run_search of the query whose lookup and
\* external search raise nothing is a cache miss, calls the external search
\* once and returns the fresh response.
C24_DanglingIsMiss ==
    [][ \A q \in Queries :
          ( /\ last'.op = "run_search" /\ last'.query = <<q>>
            /\ ~last'.faulted /\ last'.err = "none"
            /\ QueryIndex(Store, q) # {}
            /\ \A key \in DOMAIN data : key.id.slug # slugify(q) ) =>
              /\ ~last'.hit
              /\ last'.api = 1
              /\ HasKey(last'.out, "_from_cache") =>
                    GetKey(last'.out, "_from_cache") = PyBool(FALSE)
      ]_vars

\* C25: a cleanup(max_age_days) whose backend calls raise nothing deletes the
\* records whose global-index score is at most now - max_age_days days and
\* nothing else: every other record, its expiry and the index entries of
\* every other identifier are as before, and the count returned is the number
\* of old identifiers whose delete returned true.
C25_CleanupOnlyOld ==
    [][ LET cutoff == clock - Seconds(last'.days) * TicksPerSecond
            z == ZSet(Store, make_key("index", AllIndex))
            Old == { z[i].m : i \in { j \in 1..Len(z) : z[j].s <= cutoff } }
            Kept(entries) == SelectSeq(entries, LAMBDA e : e.m \notin Old)
        IN  (last'.op = "cleanup" /\ ~last'.faulted) =>
                /\ \A key \in DOMAIN data :
                      IF key.id \in Old
                      THEN key \notin DOMAIN data'
                      ELSE /\ key \in DOMAIN data' /\ data'[key] = data[key]
                           /\ (key \in DOMAIN expiry) = (key \in DOMAIN expiry')
                           /\ key \in DOMAIN expiry => expiry'[key] = expiry[key]
                /\ DOMAIN data' \subseteq DOMAIN data
                /\ \A key \in DOMAIN sorted_sets :
                      Kept(ZSet(Store', key)) = Kept(sorted_sets[key])
                /\ last'.count = Cardinality({ id \in Old : ResultKey(id) \in DOMAIN data })
      ]_vars

C25_Witness ==
    /\ last.op = "cleanup" /\ last.days = 1 /\ last.count >= 1
    /\ ResultIds(Store) # {}
    /\ ResultIds(Store) \subseteq GlobalIndex(Store)

\* C26: with ttl_days > 0, after a list_results every record it returned has
\* the full configured TTL left.
C26_ListRefreshesTtl ==
    (last.op = "list" /\ last.err = "none" /\ ttl_days > 0) =>
        \A i \in 1..Len(last.listed) :
            /\ ResultKey(last.listed[i].id) \in DOMAIN expiry
            /\ expiry[ResultKey(last.listed[i].id)] - clock = TtlTicks

\* C27: a save_results that returns has set the record's expiry to ttl_days
\* days after the save when ttl_days > 0, and left the record without expiry
\* when ttl_days is 0; with ttl_days = 0 no record is removed except by
\* delete_results and cleanup.
C27_SaveSetsExpiry ==
    [][ LET result_key == ResultKey(last'.id)
        IN  /\ (last'.op = "save" /\ last'.err = "none") =>
                  /\ result_key \in DOMAIN data'
                  /\ IF ttl_days > 0
                     THEN /\ result_key \in DOMAIN expiry'
                          /\ expiry'[result_key] = clock + ttl_days * SecondsPerDay * TicksPerSecond
                     ELSE result_key \notin DOMAIN expiry'
            /\ (ttl_days = 0 /\ last'.op \notin {"delete", "cleanup"}) =>
                  /\ DOMAIN data \subseteq DOMAIN data'
                  /\ expiry' = << >>
      ]_vars

C27_Witness ==
    /\ last.op = "save" /\ last.err = "none" /\ ttl_days = 1
    /\ clock = 2
    /\ ResultKey(last.id) \in DOMAIN expiry
    /\ expiry[ResultKey(last.id)] = 1 + SecondsPerDay * TicksPerSecond

\* C28: get_results of an identifier whose record is absent returns None,
\* raises nothing and changes no record, expiry or index; and while no
\* backend call fails, no operation raises, whether records are found or not.
C28_AbsentIsNotAnError ==
    [][ /\ (last'.op = "get" /\ ResultKey(last'.id) \notin DOMAIN data) =>
              /\ ~last'.found
              /\ last'.rec = NoRecord
              /\ Store' = Store
        /\ last'.err = "none"
      ]_vars

C28_Witness ==
    /\ last.op = "get" /\ ~last.found /\ last.err = "none"
    /\ last.id \in GlobalIndex(Store)
    /\ ResultKey(last.id) \notin DOMAIN data

\* C29: with every backend call atomic, a save_results and a delete_results
\* of the same identifier that interleave and both return without error can
\* leave the identifier in both indexes with the record absent (the state of
\* C29_Witness); this is the only disagreement they produce: the record is
\* never left present without its index entries.
C29_RaceLeavesIndexWithoutRecord ==
    \A p \in Procs, q \in Procs :
        ( /\ procs[p].op = "save" /\ procs[p].pc = "done"
          /\ procs[q].op = "delete" /\ procs[q].pc = "done"
          /\ procs[q].id = procs[p].id ) =>
            (ResultKey(procs[p].id) \in DOMAIN data =>
                /\ procs[p].id \in GlobalIndex(Store)
                /\ procs[p].id \in QueryIndex(Store, procs[p].query))

C29_Witness ==
    /\ procs["p"].op = "save" /\ procs["p"].pc = "done" /\ procs["p"].ok
    /\ procs["q"].op = "delete" /\ procs["q"].pc = "done" /\ procs["q"].ok
    /\ procs["q"].id = procs["p"].id
    /\ procs["p"].query = <<"A", " ">>
    /\ ResultKey(procs["p"].id) \notin DOMAIN data
    /\ procs["p"].id \in GlobalIndex(Store)
    /\ procs["p"].id \in QueryIndex(Store, procs["p"].query)

\* C30: while no save runs concurrently, of the delete_results calls that
\* race on a live identifier, directly or inside concurrent cleanup calls,
\* exactly one returns true: no identifier is reported deleted by two calls,
\* a call that found the record and then deleted nothing lost it to a call
\* that returned true, each cleanup's count is the number of records its
\* own deletes removed, and the records reported deleted are the records
\* removed.
C30_OneDeleteWins ==
    LET Removed == UNION { procs[p].removed : p \in Procs }
        Live == UNION { procs[p].live : p \in Procs }
    IN  (\A p \in Procs : procs[p].op # "save") =>
            /\ \A p \in Procs, q \in Procs :
                  p # q => procs[p].removed \cap procs[q].removed = {}
            /\ \A p \in Procs :
                  procs[p].raced \subseteq UNION { procs[q].removed : q \in Procs \ {p} }
            /\ \A p \in Procs :
                  procs[p].op = "cleanup" => procs[p].count = Cardinality(procs[p].removed)
            /\ Removed = Live \ ResultIds(Store)

C30_Witness ==
    /\ procs["p"].op = "delete" /\ procs["p"].pc = "done" /\ procs["p"].ok
    /\ procs["q"].op = "cleanup" /\ procs["q"].pc = "done"
    /\ procs["p"].id \in procs["q"].raced
    /\ procs["q"].count = 1
    /\ Cardinality(procs["q"].live) = 2

\* C31: when several live records exist for the slug of a non-empty query,
\* the lookup of run_search consults the one saved last: the call is a hit
\* exactly when that record's payload has a results field, and then returns
\* that record's payload.
C31_LookupReturnsNewest ==
    [][ \A q \in Queries \ { <<>> } :
          LET live == { id \in QueryIndex(Store, q) : ResultKey(id) \in DOMAIN data }
              Saved(id) == json_loads(data[ResultKey(id)])
              newest == CHOOSE id \in live :
                            \A other \in live : Saved(other).timestamp <= Saved(id).timestamp
          IN  ( /\ last'.op = "run_search" /\ last'.query = <<q>> /\ ~last'.faulted
                /\ Cardinality(live) >= 2 ) =>
                  /\ last'.hit = HasKey(Saved(newest).results, "results")
                  /\ last'.hit =>
                        last'.out = SetKey(Saved(newest).results, "_from_cache", PyBool(TRUE))
      ]_vars

\* C32: a run_search whose lookup misses and whose external search fails
\* raises SearchError, saves nothing and leaves the store as it was; and no
\* operation of the storage backend raises SearchError, whichever of its
\* backend calls fails.
C32_ApiFailureRaisesSearchError ==
    /\ [] ( /\ \A q \in Queries, cache_fault \in 0..3, save_fault \in 0..4 :
                  LET r == run_search(Store, clock, q, "error", cache_fault, save_fault)
                  IN  ~get_cached_results(Store, q, cache_fault).found =>
                          /\ r.err = "SearchError"
                          /\ r.st = Store /\ ~r.saving /\ ~r.saved /\ r.id = NoId
            /\ \A fault \in 0..4 :
                  /\ \A q \in Queries, results \in Payloads :
                        save_results(Store, clock, q, results, fault).err
                            \in { "none", "StorageError" }
                  /\ \A identifier \in KnownIds :
                        /\ get_results(Store, identifier, fault).err
                              \in { "none", "StorageError" }
                        /\ delete_results(Store, identifier, fault).err
                              \in { "none", "StorageError" }
                  /\ \A q \in { <<>> } \cup { <<x>> : x \in Queries } :
                        list_results(Store, MaxLimit, 0, q, fault).err
                            \in { "none", "StorageError" }
            /\ \A fault \in CleanupFaults :
                  cleanup(Store, clock, 0, fault).err \in { "none", "StorageError" }
            /\ last.op \in { "save", "delete", "cleanup" } => last.err # "SearchError" )
    /\ [][ (last'.op = "run_search" /\ last'.api = 1 /\ last'.err = "SearchError") =>
              /\ ~last'.hit /\ ~last'.saving /\ ~last'.saved
              /\ Store' = Store /\ clock' = clock
         ]_vars

C32_Witness ==
    /\ last.op = "run_search" /\ last.api = 1 /\ last.err = "SearchError"
    /\ ~last.hit /\ ~last.saving
    /\ last.query = << <<"A", " ">> >>
    /\ ResultIds(Store) # {}

\* C33: a delete_results that raises StorageError leaves the record and both
\* indexes as they were before the call.
C33_FailedDeleteChangesNothing ==
    [][ (last'.op = "delete" /\ last'.err = "StorageError") => Store' = Store ]_vars

\* C34: with ttl_days > 0, in every state, the states between the backend
\* calls of a save in progress included, every record key present in the
\* backend has an expiry.
C34_RecordsAlwaysExpire ==
    ttl_days > 0 =>
        \A key \in DOMAIN data : key.type = "result" => key \in DOMAIN expiry

\* C35: get_results, list_results and a run_search that is a cache hit change
\* nothing in the backend: every index keeps its members and their scores and
\* every record its stored query, timestamp and payload; after a hit no stored
\* payload carries _from_cache = True, and the hit saved nothing.
C35_ReadsChangeNothing ==
    [][ ( \/ last'.op \in { "get", "list" }
          \/ last'.op = "run_search" /\ last'.hit ) =>
            /\ sorted_sets' = sorted_sets
            /\ data' = data
            /\ clock' = clock
            /\ last'.op = "run_search" =>
                  /\ ~last'.saving /\ ~last'.saved /\ last'.id = NoId
                  /\ GetKey(last'.out, "_from_cache") = PyBool(TRUE)
                  /\ \A key \in DOMAIN data' :
                        LET stored == json_loads(data'[key]).results
                        IN  HasKey(stored, "_from_cache") =>
                                GetKey(stored, "_from_cache") = PyBool(FALSE)
      ]_vars

C35_Witness ==
    /\ last.op = "run_search" /\ last.hit
    /\ GetKey(last.out, "_from_cache") = PyBool(TRUE)
    /\ \E key \in DOMAIN data :
          /\ json_loads(data[key]).query = last.query[1]
          /\ ~HasKey(json_loads(data[key]).results, "_from_cache")
    /\ Cardinality(DOMAIN sorted_sets) >= 2

\* C36: whether a run_search is a hit, and the payload a hit returns, are the
\* same for every choice of the search options: called on the same store with
\* the same query and any other options, whatever the external search would
\* answer, run_search decides as the call made did and, on a hit, returns the
\* same payload.
C36_OptionsDoNotDecide ==
    /\ [] ( \A q \in Queries, options \in SearchOptions, api \in ApiOutcomes :
              LET one == run_search_with_options(Store, clock, q, DefaultOptions, api, 0, 0)
                  other == run_search_with_options(Store, clock, q, options, api, 0, 0)
              IN  /\ other.hit = one.hit
                  /\ one.hit => other.out = one.out /\ other.st = Store )
    /\ [][ last'.op = "run_search" =>
              LET one == run_search_with_options(Store, clock, last'.query[1],
                                                 DefaultOptions, "results", 0, 0)
              IN  /\ last'.hit = one.hit
                  /\ last'.hit => last'.out = one.out /\ Store' = Store
         ]_vars

\* A hit for a search that asks for no answer, served a payload that was
\* fetched with an answer.
C36_Witness ==
    /\ last.op = "run_search" /\ last.hit
    /\ last.options.include_answer = "false"
    /\ HasKey(last.out, "answer")
    /\ last.query = << <<"A", " ">> >>

\* C37: a search of the command line that is a cache miss calls save_results
\* exactly once and one that is a hit not at all, and no invocation adds more
\* than one record to the store.
C37_CliSavesOnce ==
    [][ (last'.op = "cli_search" /\ last'.err = "none") =>
            /\ last'.hit => last'.count = 0
            /\ ~last'.hit => last'.count = 1
            /\ Cardinality(ResultIds(Store') \ ResultIds(Store)) <= 1
      ]_vars

\* C38: after any zadd and zrem calls, zrangebyscore of the in-memory client
\* returns the members of the range in ascending order of their scores, as
\* the Redis server does.
C38_MockRangeAscending ==
    is_mock =>
        \A lo \in 0..MaxScore, hi \in 0..MaxScore :
            LET key == make_key("index", AllIndex)
                z == ZSet(Store, key)
                Score(member) == z[CHOOSE i \in 1..Len(z) : z[i].m = member].s
                got == mock_zrangebyscore(Store, key, lo, hi)
                real == zrangebyscore(Store, key, lo, hi)
            IN  /\ \A i \in 1..Len(got), j \in 1..Len(got) :
                      i < j => Score(got[i]) <= Score(got[j])
                /\ (\A i \in 1..Len(z), j \in 1..Len(z) : i # j => z[i].s # z[j].s)
                      => got = real

====
